---- MODULE Spec2Model ----
(***************************************************************************)
(* A model of agent.py: the generate / validate / repair loop of main, the *)
(* candidate runner and table oracle of run_parser_test, and the repair    *)
(* step fix_parser.                                                        *)
(*                                                                         *)
(* Three specifications share the module:                                  *)
(*   Spec      the run of main (with LiveSpec, its fair version);          *)
(*   CellSpec  the cell normalization of run_parser_test, applied to one   *)
(*             produced cell, once and then again;                         *)
(*   TableSpec run_parser_test's data path on one expected csv and one     *)
(*             produced table, statement by statement.                     *)
(***************************************************************************)
EXTENDS Integers, Sequences, FiniteSets, TLC

VARIABLES
    \* ---- main ----
    pc,           \* position of main
    pdf_exists,   \* data/<bank>/<bank>_sample.pdf exists
    csv_exists,   \* data/<bank>/<bank>_sample.csv exists
    api_key,      \* GOOGLE_API_KEY is set
    csv_file,     \* content of the expected csv (header and fields)
    disk,         \* content of custom_parsers/<bank>_parser.py
    attempt,      \* the for loop's variable
    success,      \* main's local: first component of run_parser_test's result
    feedback,     \* main's local: second component of run_parser_test's result
    generations,  \* calls of generate_parser so far
    comparisons,  \* calls of run_parser_test so far
    repairs,      \* calls of fix_parser so far
    reports,      \* the results run_parser_test returned, in order
    fixes,        \* what each fix_parser call read and was given, in order
    pdf_path,     \* main's local: path of the input document
    csv_path,     \* main's local: path of the expected csv
    parser_path,  \* main's local: path of the parser file
    loaded,       \* the module run_parser_test built and executed last
    \* ---- one cell through the normalization ----
    cpc, cell, once, twice,
    \* ---- one table pair through run_parser_test's data path ----
    tpc, expected_csv, produced, expected_df, result_df, outcome

mainVars  == <<pc, pdf_exists, csv_exists, api_key, csv_file, disk, attempt,
               success, feedback, generations, comparisons, repairs, reports, fixes,
               pdf_path, csv_path, parser_path, loaded>>
cellVars  == <<cpc, cell, once, twice>>
tableVars == <<tpc, expected_csv, produced, expected_df, result_df, outcome>>
vars      == <<mainVars, cellVars, tableVars>>

MAX_ATTEMPTS == 3

(***************************************************************************)
(* Texts.  A text is a sequence of characters.  The inputs are built from  *)
(* a few words so that the null texts, and null texts wrapped in white     *)
(* space, occur among short inputs.                                        *)
(***************************************************************************)
MaxWords == 3

NAN_TEXT  == <<"n", "a", "n">>
NA_TEXT   == <<"<", "N", "A", ">">>
NONE_TEXT == <<"N", "o", "n", "e">>
EMPTY     == <<>>

Whitespace == {" ", "\n"}

Words == {NAN_TEXT, NA_TEXT, NONE_TEXT, <<" ">>, <<"\n">>, <<"x">>}

RECURSIVE Concat(_)
Concat(ws) == IF ws = <<>> THEN <<>> ELSE Head(ws) \o Concat(Tail(ws))

TextsOf(n) == { Concat(ws) : ws \in UNION { [1..k -> Words] : k \in 0..n } }

(***************************************************************************)
(* Cell values.  A produced cell is a Python object: a string, or one of   *)
(* the missing markers float('nan'), None, pandas.NA.                      *)
(***************************************************************************)
Str(t)  == [py |-> "str", text |-> t]
NaN     == [py |-> "nan", text |-> EMPTY]
PyNone  == [py |-> "None", text |-> EMPTY]
PdNA    == [py |-> "NA", text |-> EMPTY]
Missing == {NaN, PyNone, PdNA}

IsMissing(v) == v.py # "str"

\* DataFrame.astype(str): every object becomes its str()
AstypeStr(v) ==
    CASE v.py = "str"  -> v
      [] v.py = "nan"  -> Str(NAN_TEXT)
      [] v.py = "None" -> Str(NONE_TEXT)
      [] v.py = "NA"   -> Str(NA_TEXT)

\* faulty variant: the pattern without its None alternative
NullAlternativesNoNone == {NAN_TEXT, NA_TEXT}

\* faulty variant: the pattern also blanks a zero amount
NullAlternativesWithZero == {NAN_TEXT, NA_TEXT, NONE_TEXT, <<"0", ".", "0", "0">>}

\* the alternatives of the pattern r'^(nan|<NA>|None)$'
NullAlternatives == {NAN_TEXT, NA_TEXT, NONE_TEXT}

Front(t) == SubSeq(t, 1, Len(t) - 1)

\* re.sub(r'^(nan|<NA>|None)$', '', t): ^ matches at the start only, $ at the end
\* and also just before a final newline, which the match then leaves in place
RegexReplaceText(t) ==
    IF t \in NullAlternatives THEN EMPTY
    ELSE IF Len(t) > 0 /\ t[Len(t)] = "\n" /\ Front(t) \in NullAlternatives
         THEN <<"\n">>
         ELSE t

\* Series.str.replace(pat, '', regex=True): missing values stay missing
StrReplaceNulls(v) == IF IsMissing(v) THEN v ELSE Str(RegexReplaceText(v.text))

\* fillna('')
Fillna(v) == IF IsMissing(v) THEN Str(EMPTY) ELSE v

RECURSIVE LStrip(_)
LStrip(t) == IF t # <<>> /\ Head(t) \in Whitespace THEN LStrip(Tail(t)) ELSE t

RECURSIVE RStrip(_)
RStrip(t) == IF t # <<>> /\ t[Len(t)] \in Whitespace THEN RStrip(Front(t)) ELSE t

\* str.strip()
Strip(t) == RStrip(LStrip(t))

\* x.str.strip() on a cell
StrStrip(v) == IF IsMissing(v) THEN v ELSE Str(Strip(v.text))

\* lines 107-113 on one cell of result_df
NormalizeResultCell(v) == StrStrip(Fillna(StrReplaceNulls(AstypeStr(v))))

RawCells == Missing \cup { Str(t) : t \in TextsOf(MaxWords) }

(***************************************************************************)
(* CellSpec: the normalization applied to a produced cell, and applied     *)
(* again to its own result.                                                *)
(***************************************************************************)
CellInit ==
    /\ cpc = "raw"
    /\ cell \in RawCells
    /\ once = NaN
    /\ twice = NaN

NormalizeOnce ==
    /\ cpc = "raw"
    /\ once' = NormalizeResultCell(cell)
    /\ cpc' = "once"
    /\ UNCHANGED <<cell, twice>>

NormalizeAgain ==
    /\ cpc = "once"
    /\ twice' = NormalizeResultCell(once)
    /\ cpc' = "twice"
    /\ UNCHANGED <<cell, once>>


(***************************************************************************)
(* Tables.  A frame has column labels, row (index) labels and cells, the   *)
(* cell of row position r and column position c being data[r][c].  A csv   *)
(* file has a header and records of field texts.                           *)
(***************************************************************************)
MaxCells == 2

Range(f) == { f[i] : i \in DOMAIN f }

Injective(f) == \A i, j \in DOMAIN f : f[i] = f[j] => i = j

LabelSeqs(names, n) == { q \in [1..n -> names] : Injective(q) }

Shapes == { rc \in (0..MaxCells) \X (1..MaxCells) : rc[1] * rc[2] <= MaxCells }

\* the fields pandas.read_csv reads as missing by default, also under dtype=str
NA_VALUES ==
    {<<>>,
     <<"#", "N", "/", "A">>,
     <<"#", "N", "/", "A", " ", "N", "/", "A">>,
     <<"#", "N", "A">>,
     <<"-", "1", ".", "#", "I", "N", "D">>,
     <<"-", "1", ".", "#", "Q", "N", "A", "N">>,
     <<"-", "N", "a", "N">>,
     <<"-", "n", "a", "n">>,
     <<"1", ".", "#", "I", "N", "D">>,
     <<"1", ".", "#", "Q", "N", "A", "N">>,
     <<"<", "N", "A", ">">>,
     <<"N", "/", "A">>,
     <<"N", "A">>,
     <<"N", "U", "L", "L">>,
     <<"N", "a", "N">>,
     <<"N", "o", "n", "e">>,
     <<"n", "/", "a">>,
     <<"n", "a", "n">>,
     <<"n", "u", "l", "l">>}

\* pandas.read_csv(csv_path, dtype=str) on one field
ReadCsvField(t) == IF t \in NA_VALUES THEN NaN ELSE Str(t)

\* line 95: the header gives the columns, the rows are labelled 0, 1, ...
ReadCsv(csv) ==
    [columns |-> csv.header,
     index   |-> [r \in DOMAIN csv.records |-> r - 1],
     data    |-> [r \in DOMAIN csv.records |->
                    [c \in DOMAIN csv.records[r] |-> ReadCsvField(csv.records[r][c])]]]

\* line 96: expected_df.fillna('').apply(lambda x: x.str.strip())
CleanExpectedCell(v) == StrStrip(Fillna(v))
CleanExpected(frame) ==
    [frame EXCEPT !.data = [r \in DOMAIN frame.data |->
                              [c \in DOMAIN frame.data[r] |-> CleanExpectedCell(frame.data[r][c])]]]

\* line 107, lines 110-111, line 113, each on a whole frame
AstypeFrame(frame) ==
    [frame EXCEPT !.data = [r \in DOMAIN frame.data |->
                              [c \in DOMAIN frame.data[r] |-> AstypeStr(frame.data[r][c])]]]

ReplaceNullsFrame(frame) ==
    [frame EXCEPT !.data = [r \in DOMAIN frame.data |->
                              [c \in DOMAIN frame.data[r] |-> StrReplaceNulls(frame.data[r][c])]]]

FillStripCell(v) == StrStrip(Fillna(v))
FillStripFrame(frame) ==
    [frame EXCEPT !.data = [r \in DOMAIN frame.data |->
                              [c \in DOMAIN frame.data[r] |-> FillStripCell(frame.data[r][c])]]]

\* lines 107-113
CleanResult(frame) == FillStripFrame(ReplaceNullsFrame(AstypeFrame(frame)))

(***************************************************************************)
(* pandas.testing.assert_frame_equal(left, right, check_like=True): the    *)
(* shapes, then the index labels and the column labels, each compared      *)
(* after sorting, then left laid out like right and the columns compared   *)
(* cell by cell.                                                           *)
(***************************************************************************)
Shape(frame) == <<Len(frame.index), Len(frame.columns)>>

Count(q, x) == Cardinality({ i \in DOMAIN q : q[i] = x })

\* two label sequences are equal once sorted iff each label occurs equally often
SameSorted(p, q) == \A x \in Range(p) \cup Range(q) : Count(p, x) = Count(q, x)

PositionOf(q, x) == CHOOSE i \in DOMAIN q : q[i] = x

\* left.reindex_like(right)
ReindexLike(left, right) ==
    [columns |-> right.columns,
     index   |-> right.index,
     data    |-> [r \in DOMAIN right.index |->
                    [c \in DOMAIN right.columns |->
                       left.data[PositionOf(left.index, right.index[r])]
                                [PositionOf(left.columns, right.columns[c])]]]]

ColumnDiffers(left, right, c) == \E r \in DOMAIN right.index : left.data[r][c] # right.data[r][c]

Report(kind, column) == [kind |-> kind, column |-> column]

NO_COLUMN == "-"

\* faulty variant: check_like left at its default False, labels compared in order
AssertFrameEqualOrdered(left, right) ==
    IF Shape(left) # Shape(right) THEN Report("ShapeMismatch", NO_COLUMN)
    ELSE IF left.index # right.index THEN Report("IndexMismatch", NO_COLUMN)
    ELSE IF left.columns # right.columns THEN Report("ColumnSetMismatch", NO_COLUMN)
    ELSE LET bad == { c \in DOMAIN right.columns : ColumnDiffers(left, right, c) }
         IN  IF bad = {} THEN Report("Match", NO_COLUMN)
             ELSE Report("ValueMismatch",
                         right.columns[CHOOSE c \in bad : \A d \in bad : c <= d])

AssertFrameEqual(left, right) ==
    IF Shape(left) # Shape(right) THEN Report("ShapeMismatch", NO_COLUMN)
    ELSE IF ~SameSorted(left.index, right.index) THEN Report("IndexMismatch", NO_COLUMN)
    ELSE IF ~SameSorted(left.columns, right.columns) THEN Report("ColumnSetMismatch", NO_COLUMN)
    ELSE LET laid == ReindexLike(left, right)
             bad  == { c \in DOMAIN right.columns : ColumnDiffers(laid, right, c) }
         IN  IF bad = {} THEN Report("Match", NO_COLUMN)
             ELSE Report("ValueMismatch",
                         right.columns[CHOOSE c \in bad : \A d \in bad : c <= d])


(***************************************************************************)
(* TableSpec: one expected csv and one produced frame through lines 95 to  *)
(* 117 of run_parser_test.                                                 *)
(***************************************************************************)
EXPECTED_NAMES == {"Debit", "Credit"}
PRODUCED_NAMES == {"Debit", "Credit", "Balance"}

CsvFields == {EMPTY, <<"x">>}

TableCells == Missing \cup {Str(NAN_TEXT), Str(NA_TEXT), Str(NONE_TEXT), Str(<<"x">>)}

\* row labels a produced frame of n rows may carry: 0..n-1 in any order, or 1..n
IndexChoices(n) == LabelSeqs(0..(n - 1), n) \cup {[r \in 1..n |-> r]}

CsvFiles ==
    UNION { { [header |-> h, records |-> d] :
                h \in LabelSeqs(EXPECTED_NAMES, rc[2]),
                d \in [1..rc[1] -> [1..rc[2] -> CsvFields]] } :
            rc \in { s \in Shapes : s[2] <= Cardinality(EXPECTED_NAMES) } }

ProducedFrames ==
    UNION { { [columns |-> h, index |-> ix, data |-> d] :
                h \in LabelSeqs(PRODUCED_NAMES, rc[2]),
                ix \in IndexChoices(rc[1]),
                d \in [1..rc[1] -> [1..rc[2] -> TableCells]] } :
            rc \in { s \in Shapes : s[2] <= Cardinality(PRODUCED_NAMES) } }

NO_FRAME  == [columns |-> <<>>, index |-> <<>>, data |-> <<>>]
NO_REPORT == Report("-", NO_COLUMN)

TableInit ==
    /\ tpc = "start"
    /\ expected_csv \in CsvFiles
    /\ produced \in ProducedFrames
    /\ expected_df = NO_FRAME
    /\ result_df = NO_FRAME
    /\ outcome = NO_REPORT

\* lines 95-99: the expected table is read and cleaned, parse() returns its frame
LoadAndParse ==
    /\ tpc = "start"
    /\ expected_df' = CleanExpected(ReadCsv(expected_csv))
    /\ result_df' = produced
    /\ tpc' = "parsed"
    /\ UNCHANGED <<expected_csv, produced, outcome>>

\* lines 107-113
NormalizeResult ==
    /\ tpc = "parsed"
    /\ result_df' = CleanResult(result_df)
    /\ tpc' = "clean"
    /\ UNCHANGED <<expected_csv, produced, expected_df, outcome>>

\* line 117
CompareFrames ==
    /\ tpc = "clean"
    /\ outcome' = AssertFrameEqual(expected_df, result_df)
    /\ tpc' = "done"
    /\ UNCHANGED <<expected_csv, produced, expected_df, result_df>>


(***************************************************************************)
(* Candidate programs.  The text of a program is known by the revision     *)
(* number the code-generation service gave it, the revision and feedback   *)
(* its prompt carried, and what loading and calling it does.               *)
(***************************************************************************)
SAMPLE_CSV == [header |-> <<"Debit", "Credit">>, records |-> << <<(<<"x">>), EMPTY>> >>]

Frame1(columns, label, cells) == [columns |-> columns, index |-> <<label>>, data |-> <<cells>>]

CandidateFrames ==
    {Frame1(<<"Debit", "Credit">>, 0, <<Str(<<"x">>), Str(EMPTY)>>),
     Frame1(<<"Credit", "Debit">>, 0, <<Str(EMPTY), Str(<<"x">>)>>),
     Frame1(<<"Debit", "Credit">>, 0, <<Str(<<"x">>), PyNone>>),
     Frame1(<<"Debit", "Credit">>, 0, <<Str(<<"x">>), Str(<<"x">>)>>),
     Frame1(<<"Debit", "Balance">>, 0, <<Str(<<"x">>), Str(EMPTY)>>),
     Frame1(<<"Debit", "Credit">>, 1, <<Str(<<"x">>), Str(EMPTY)>>),
     [columns |-> <<"Debit", "Credit">>, index |-> <<>>, data |-> <<>>]}

\* what exec_module and module.parse(pdf_path) do: the error they raise, if any
ExceptionKinds == {"SyntaxError", "RuntimeError", "AttributeError"}
\* SystemExit derives from BaseException, not from Exception
BaseExceptionKinds == {"SystemExit"}

Behaviours ==
    { [kind |-> k, frame |-> NO_FRAME] :
        k \in ExceptionKinds \cup BaseExceptionKinds \cup {"returns_none", "returns_other"} }
    \cup { [kind |-> "returns_frame", frame |-> f] : f \in CandidateFrames }

NO_FEEDBACK == [ok |-> FALSE, error_type |-> "-", detail |-> NO_REPORT, rev |-> 0]

Program(rev, parent, given, behaviour) ==
    [exists |-> TRUE, rev |-> rev, parent |-> parent, given |-> given, behaviour |-> behaviour]

NO_FILE == [exists |-> FALSE, rev |-> 0, parent |-> 0, given |-> NO_FEEDBACK,
            behaviour |-> [kind |-> "returns_none", frame |-> NO_FRAME]]

\* a parser file left in custom_parsers/ by an earlier run
STALE_FILE == Program(0, 0, NO_FEEDBACK, [kind |-> "returns_none", frame |-> NO_FRAME])

\* line 118, and lines 120-130: the pair run_parser_test returns; the text names
\* the error and, through the traceback, the run that raised it
Passed(rev) == [ok |-> TRUE, error_type |-> "-", detail |-> Report("Match", NO_COLUMN), rev |-> rev]
Failed(rev, error_type, detail) ==
    [ok |-> FALSE, error_type |-> error_type, detail |-> detail, rev |-> rev]

\* lines 89-130 for a program whose load and call raise nothing outside Exception
TestResult(program, csv) ==
    LET b == program.behaviour IN
    IF b.kind \in ExceptionKinds THEN Failed(program.rev, b.kind, NO_REPORT)
    ELSE IF b.kind \in {"returns_none", "returns_other"}
         THEN Failed(program.rev, "TypeError", NO_REPORT)
         ELSE LET r == AssertFrameEqual(CleanExpected(ReadCsv(csv)), CleanResult(b.frame))
              IN  IF r.kind = "Match" THEN Passed(program.rev)
                  ELSE Failed(program.rev, "AssertionError", r)

\* line 87
NoParserFile == [ok |-> FALSE, error_type |-> "no file", detail |-> NO_REPORT, rev |-> 0]

\* except Exception (line 120) catches every error but those outside Exception
Caught(kind) == kind \notin BaseExceptionKinds

(***************************************************************************)
(* main                                                                    *)
(***************************************************************************)
\* lines 173-174, and lines 76-78: the three paths, for the bank the run is given
PDF_PATH == "data/bank/bank_sample.pdf"
CSV_PATH == "data/bank/bank_sample.csv"
PARSER_PATH == "custom_parsers/bank_parser.py"
\* main's parser_path before line 193 binds it
NO_PATH == "-"

Terminal == {"Success", "Exhausted", "MissingInput", "ConfigError", "Aborted", "Returned"}

MainInit ==
    /\ pc = "Start"
    /\ pdf_exists \in BOOLEAN
    /\ csv_exists \in BOOLEAN
    /\ api_key \in BOOLEAN
    /\ csv_file = SAMPLE_CSV
    /\ disk \in {NO_FILE, STALE_FILE}
    /\ attempt = 0
    /\ success = FALSE
    /\ feedback = NO_FEEDBACK
    /\ generations = 0
    /\ comparisons = 0
    /\ repairs = 0
    /\ reports = <<>>
    /\ fixes = <<>>
    /\ pdf_path = PDF_PATH
    /\ csv_path = CSV_PATH
    /\ parser_path = NO_PATH
    /\ loaded = NO_FILE

\* faulty variant: any([...]) in place of all([...])
AnyInputPresent == pdf_exists \/ csv_exists

\* line 176
InputsPresent == pdf_exists /\ csv_exists

\* lines 173-178
CheckInputs ==
    /\ pc = "Start"
    /\ pc' = IF InputsPresent THEN "Configure" ELSE "MissingInput"
    /\ UNCHANGED <<pdf_exists, csv_exists, api_key, csv_file, disk, attempt, success,
                   feedback, generations, comparisons, repairs, reports, fixes,
                   pdf_path, csv_path, parser_path, loaded>>

\* lines 180-189
Configure ==
    /\ pc = "Configure"
    /\ pc' = IF api_key THEN "Generate" ELSE "ConfigError"
    /\ UNCHANGED <<pdf_exists, csv_exists, api_key, csv_file, disk, attempt, success,
                   feedback, generations, comparisons, repairs, reports, fixes,
                   pdf_path, csv_path, parser_path, loaded>>

\* faulty variant: range(1, MAX_ATTEMPTS), one attempt short
LoopNextShort(a) == IF a + 1 < MAX_ATTEMPTS THEN "RunTest" ELSE "Returned"

\* the for statement of line 195 taking its next value after attempt a
LoopNext(a) == IF a + 1 <= MAX_ATTEMPTS THEN "RunTest" ELSE "Returned"

\* lines 192-195: generate_parser calls the service, which raises or returns a
\* text; the text is written to the parser file and the loop is entered
GenerateParser ==
    /\ pc = "Generate"
    /\ generations' = generations + 1
    /\ \E raised \in BOOLEAN, b \in Behaviours :
         IF raised
         THEN /\ pc' = "Aborted"
              /\ UNCHANGED <<disk, attempt, parser_path>>
         ELSE /\ disk' = Program(1, 0, NO_FEEDBACK, b)
              /\ parser_path' = PARSER_PATH
              /\ attempt' = 1
              /\ pc' = LoopNext(0)
    /\ UNCHANGED <<pdf_exists, csv_exists, api_key, csv_file, success, feedback,
                   comparisons, repairs, reports, fixes, pdf_path, csv_path, loaded>>

\* faulty variant: the module of an earlier attempt, once loaded, is used again
CachedModule == IF loaded.exists THEN loaded ELSE disk

\* lines 90-92: a new module object is built from the parser file and executed
LoadModule == disk

\* faulty variant: the parser file is removed after the run
RunParserTestUnlinks ==
    /\ pc = "RunTest"
    /\ comparisons' = comparisons + 1
    /\ loaded' = IF disk.exists THEN LoadModule ELSE loaded
    /\ disk' = NO_FILE
    /\ IF disk.exists /\ ~Caught(loaded'.behaviour.kind)
       THEN /\ pc' = "Aborted"
            /\ UNCHANGED <<success, feedback, reports>>
       ELSE LET result == IF disk.exists THEN TestResult(loaded', csv_file) ELSE NoParserFile
            IN  /\ success' = result.ok
                /\ feedback' = result
                /\ reports' = Append(reports, result)
                /\ pc' = "Judge"
    /\ UNCHANGED <<pdf_exists, csv_exists, api_key, csv_file, attempt,
                   generations, repairs, fixes, pdf_path, csv_path, parser_path>>

\* line 197 with lines 84-130
RunParserTest ==
    /\ pc = "RunTest"
    /\ comparisons' = comparisons + 1
    /\ loaded' = IF disk.exists THEN LoadModule ELSE loaded
    /\ IF disk.exists /\ ~Caught(loaded'.behaviour.kind)
       THEN /\ pc' = "Aborted"
            /\ UNCHANGED <<success, feedback, reports>>
       ELSE LET result == IF disk.exists THEN TestResult(loaded', csv_file) ELSE NoParserFile
            IN  /\ success' = result.ok
                /\ feedback' = result
                /\ reports' = Append(reports, result)
                /\ pc' = "Judge"
    /\ UNCHANGED <<pdf_exists, csv_exists, api_key, csv_file, disk, attempt,
                   generations, repairs, fixes, pdf_path, csv_path, parser_path>>

\* faulty variant: attempt <= MAX_ATTEMPTS in line 205
JudgeOffByOne ==
    /\ pc = "Judge"
    /\ pc' = IF success THEN "Success"
             ELSE IF attempt <= MAX_ATTEMPTS THEN "Fix" ELSE "Exhausted"
    /\ UNCHANGED <<pdf_exists, csv_exists, api_key, csv_file, disk, attempt, success,
                   feedback, generations, comparisons, repairs, reports, fixes,
                   pdf_path, csv_path, parser_path, loaded>>

\* faulty variant: the return of line 202 left out
JudgeNoReturn ==
    /\ pc = "Judge"
    /\ pc' = IF attempt < MAX_ATTEMPTS THEN "Fix"
             ELSE IF success THEN "Success" ELSE "Exhausted"
    /\ UNCHANGED <<pdf_exists, csv_exists, api_key, csv_file, disk, attempt, success,
                   feedback, generations, comparisons, repairs, reports, fixes,
                   pdf_path, csv_path, parser_path, loaded>>

\* faulty variant: the else branch of lines 208-210 left out
JudgeNoBreak ==
    /\ pc = "Judge"
    /\ pc' = IF success THEN "Success"
             ELSE IF attempt < MAX_ATTEMPTS THEN "Fix" ELSE "Returned"
    /\ UNCHANGED <<pdf_exists, csv_exists, api_key, csv_file, disk, attempt, success,
                   feedback, generations, comparisons, repairs, reports, fixes,
                   pdf_path, csv_path, parser_path, loaded>>

\* lines 199-210
Judge ==
    /\ pc = "Judge"
    /\ pc' = IF success THEN "Success"
             ELSE IF attempt < MAX_ATTEMPTS THEN "Fix" ELSE "Exhausted"
    /\ UNCHANGED <<pdf_exists, csv_exists, api_key, csv_file, disk, attempt, success,
                   feedback, generations, comparisons, repairs, reports, fixes,
                   pdf_path, csv_path, parser_path, loaded>>

\* faulty variant: the repair asks for a fresh program, without the code and the feedback
FixParserFromScratch ==
    /\ pc = "Fix"
    /\ repairs' = repairs + 1
    /\ fixes' = Append(fixes, [attempt |-> attempt, original_code |-> 0, feedback |-> NO_FEEDBACK])
    /\ \E raised \in BOOLEAN, b \in Behaviours :
         IF raised
         THEN /\ pc' = "Aborted"
              /\ UNCHANGED <<disk, attempt, parser_path>>
         ELSE /\ disk' = Program(disk.rev + 1, 0, NO_FEEDBACK, b)
              /\ parser_path' = parser_path
              /\ attempt' = attempt + 1
              /\ pc' = LoopNext(attempt)
    /\ UNCHANGED <<pdf_exists, csv_exists, api_key, csv_file, success, feedback,
                   generations, comparisons, reports, pdf_path, csv_path, loaded>>

\* faulty variant: the parser file is opened for writing before the service is
\* called, so that a call that raises leaves an empty file
FixParserWritesFirst ==
    /\ pc = "Fix"
    /\ repairs' = repairs + 1
    /\ fixes' = Append(fixes, [attempt |-> attempt, original_code |-> disk.rev, feedback |-> feedback])
    /\ \E raised \in BOOLEAN, b \in Behaviours :
         IF raised
         THEN /\ pc' = "Aborted"
              /\ disk' = Program(disk.rev + 1, disk.rev, feedback,
                                 [kind |-> "AttributeError", frame |-> NO_FRAME])
              /\ UNCHANGED <<attempt, parser_path>>
         ELSE /\ disk' = Program(disk.rev + 1, disk.rev, feedback, b)
              /\ parser_path' = parser_path
              /\ attempt' = attempt + 1
              /\ pc' = LoopNext(attempt)
    /\ UNCHANGED <<pdf_exists, csv_exists, api_key, csv_file, success, feedback,
                   generations, comparisons, reports, pdf_path, csv_path, loaded>>

\* line 207 with lines 131-164, then line 195: fix_parser reads the parser file,
\* calls the service with that text and the feedback, and writes what it returns
FixParser ==
    /\ pc = "Fix"
    /\ repairs' = repairs + 1
    /\ fixes' = Append(fixes, [attempt |-> attempt, original_code |-> disk.rev, feedback |-> feedback])
    /\ \E raised \in BOOLEAN, b \in Behaviours :
         IF raised
         THEN /\ pc' = "Aborted"
              /\ UNCHANGED <<disk, attempt, parser_path>>
         ELSE /\ disk' = Program(disk.rev + 1, disk.rev, feedback, b)
              /\ parser_path' = parser_path
              /\ attempt' = attempt + 1
              /\ pc' = LoopNext(attempt)
    /\ UNCHANGED <<pdf_exists, csv_exists, api_key, csv_file, success, feedback,
                   generations, comparisons, reports, pdf_path, csv_path, loaded>>

(***************************************************************************)
(* Specifications                                                          *)
(***************************************************************************)
MainIdle ==
    /\ pc = "idle" /\ pdf_exists = FALSE /\ csv_exists = FALSE /\ api_key = FALSE
    /\ csv_file = SAMPLE_CSV /\ disk = NO_FILE /\ attempt = 0 /\ success = FALSE
    /\ feedback = NO_FEEDBACK /\ generations = 0 /\ comparisons = 0 /\ repairs = 0
    /\ reports = <<>> /\ fixes = <<>>
    /\ pdf_path = PDF_PATH /\ csv_path = CSV_PATH /\ parser_path = NO_PATH /\ loaded = NO_FILE

CellIdle == cpc = "idle" /\ cell = NaN /\ once = NaN /\ twice = NaN

TableIdle ==
    /\ tpc = "idle" /\ expected_csv = SAMPLE_CSV /\ produced = NO_FRAME
    /\ expected_df = NO_FRAME /\ result_df = NO_FRAME /\ outcome = NO_REPORT

Init == MainInit /\ CellIdle /\ TableIdle

Next ==
    \/ CheckInputs /\ UNCHANGED <<cellVars, tableVars>>
    \/ Configure /\ UNCHANGED <<cellVars, tableVars>>
    \/ GenerateParser /\ UNCHANGED <<cellVars, tableVars>>
    \/ RunParserTest /\ UNCHANGED <<cellVars, tableVars>>
    \/ Judge /\ UNCHANGED <<cellVars, tableVars>>
    \/ FixParser /\ UNCHANGED <<cellVars, tableVars>>

Spec == Init /\ [][Next]_vars

\* main is one sequential thread: a step that can be taken is taken
LiveSpec == Spec /\ WF_vars(Next)

CellNext ==
    \/ NormalizeOnce /\ UNCHANGED <<mainVars, tableVars>>
    \/ NormalizeAgain /\ UNCHANGED <<mainVars, tableVars>>

CellSpecInit == CellInit /\ MainIdle /\ TableIdle

CellSpec == CellSpecInit /\ [][CellNext]_vars

TableNext ==
    \/ LoadAndParse /\ UNCHANGED <<mainVars, cellVars>>
    \/ NormalizeResult /\ UNCHANGED <<mainVars, cellVars>>
    \/ CompareFrames /\ UNCHANGED <<mainVars, cellVars>>

TableSpecInit == TableInit /\ MainIdle /\ CellIdle

TableSpec == TableSpecInit /\ [][TableNext]_vars


(***************************************************************************)
(* Claims                                                                  *)
(***************************************************************************)
AllFailed == \A i \in DOMAIN reports : ~reports[i].ok

\* C1: a run that enters the loop, in which the service and the candidates
\* always return and every run_parser_test call returns failure, reaches
\* Exhausted having made exactly MAX_ATTEMPTS comparisons and MAX_ATTEMPTS - 1
\* repair calls.
AttemptBound ==
    (<>(pc = "RunTest") /\ [](pc # "Aborted") /\ [](~success))
        => <>(pc = "Exhausted" /\ comparisons = MAX_ATTEMPTS /\ repairs = MAX_ATTEMPTS - 1)

ExhaustedAfterAllFail ==
    /\ pc = "Exhausted"
    /\ Len(reports) = MAX_ATTEMPTS /\ AllFailed
    /\ repairs = MAX_ATTEMPTS - 1

\* the program on disk passes the test of run_parser_test
CandidateMatches == disk.exists /\ Caught(disk.behaviour.kind) /\ TestResult(disk, csv_file).ok

\* C2: when the candidate written by generate_parser matches the expected
\* table, the run ends in Success after exactly one comparison and no repair.
SuccessShortCircuit ==
    (pc = "RunTest" /\ attempt = 1 /\ CandidateMatches)
        ~> (pc = "Success" /\ comparisons = 1 /\ repairs = 0)

FirstCandidateAccepted ==
    pc = "Success" /\ attempt = 1 /\ comparisons = 1 /\ repairs = 0 /\ disk.rev = 1

\* C3: in every reachable state there are at most MAX_ATTEMPTS comparisons and
\* at most MAX_ATTEMPTS - 1 repair calls; comparisons and repairs alternate;
\* an attempt that is about to run has had attempt - 1 comparisons and repairs,
\* and once its comparison is made it is the attempt-th, with attempt - 1 repairs.
AttemptCounts ==
    /\ comparisons <= MAX_ATTEMPTS
    /\ repairs <= MAX_ATTEMPTS - 1
    /\ repairs <= comparisons /\ comparisons <= repairs + 1
    /\ Len(reports) <= comparisons
    /\ pc = "RunTest" => comparisons = attempt - 1 /\ repairs = attempt - 1
    /\ pc \in {"Judge", "Fix", "Success", "Exhausted"} =>
           comparisons = attempt /\ repairs = attempt - 1 /\ Len(reports) = attempt

LastComparisonMade ==
    pc = "Judge" /\ attempt = MAX_ATTEMPTS /\ comparisons = MAX_ATTEMPTS

\* C4: a run that enters the loop and in which every call of the service and
\* every candidate execution returns ends in Success or in Exhausted.
Termination ==
    [](pc # "Aborted") => ((pc = "RunTest") ~> (pc \in {"Success", "Exhausted"}))

SecondAttemptEnds == pc = "Success" /\ attempt = 2 /\ ~reports[1].ok

\* what loading and calling the program on disk raises or returns is a fault
CandidateFaults == disk.exists /\ disk.behaviour.kind # "returns_frame"

\* C5: a fault raised by loading or calling the candidate is returned by
\* run_parser_test as a failure with a feedback text, never propagated, and
\* below MAX_ATTEMPTS the loop goes on to a repair call.
FaultContainment ==
    /\ [][(pc = "RunTest" /\ CandidateFaults)
            => (pc' = "Judge" /\ ~success' /\ feedback'.error_type # "-")]_vars
    /\ [][(pc = "Judge" /\ ~success /\ attempt < MAX_ATTEMPTS) => pc' = "Fix"]_vars

\* C6: a run ends in Success exactly when some comparison returned Match, and
\* then that comparison is the last and no repair follows it; it ends in
\* Exhausted exactly when MAX_ATTEMPTS comparisons all returned Mismatch; each
\* repair follows a Mismatch at an attempt below MAX_ATTEMPTS.
TerminalConditions ==
    /\ \A i \in DOMAIN reports : reports[i].ok =>
          /\ i = Len(reports) /\ i <= MAX_ATTEMPTS
          /\ pc \in {"Judge", "Success"}
          /\ comparisons = i /\ repairs = i - 1
    /\ pc = "Success" => reports # <<>> /\ reports[Len(reports)].ok
    /\ pc = "Exhausted" => Len(reports) = MAX_ATTEMPTS /\ AllFailed
    /\ (Len(reports) = MAX_ATTEMPTS /\ AllFailed) => pc \in {"Judge", "Exhausted"}
    /\ pc \in Terminal =>
          /\ pc = "Success" <=> \E i \in DOMAIN reports : reports[i].ok
          /\ pc = "Exhausted" <=> (Len(reports) = MAX_ATTEMPTS /\ AllFailed)
    /\ \A j \in DOMAIN fixes :
          /\ fixes[j].attempt = j /\ j < MAX_ATTEMPTS
          /\ j \in DOMAIN reports /\ ~reports[j].ok

SuccessAfterRepairs ==
    pc = "Success" /\ Len(fixes) = MAX_ATTEMPTS - 1 /\ reports[MAX_ATTEMPTS].ok

\* C7: generate_parser is called once, before any comparison; every later
\* program is written by fix_parser from the text just compared and the
\* feedback of that comparison, which failed.
RepairLineage ==
    /\ generations <= 1
    /\ comparisons > 0 => generations = 1
    /\ disk.rev = 1 => disk.parent = 0 /\ disk.given = NO_FEEDBACK
    /\ disk.rev >= 2 =>
          /\ disk.parent = disk.rev - 1
          /\ disk.given = reports[disk.rev - 1]
          /\ disk.given.rev = disk.parent /\ ~disk.given.ok
          /\ Len(fixes) >= disk.rev - 1
    /\ \A j \in DOMAIN fixes :
          /\ fixes[j].original_code = j
          /\ fixes[j].feedback = reports[j]
          /\ reports[j].rev = j /\ ~reports[j].ok

ThirdRevisionWritten == pc = "RunTest" /\ disk.rev = 3 /\ Len(fixes) = 2

\* C8: when the input document or the expected table is absent, main returns
\* before any call of the service, any run of a candidate, any comparison and
\* any repair, and writes no program.
MissingInputFatal ==
    (~pdf_exists \/ ~csv_exists) =>
        /\ pc \in {"Start", "MissingInput"}
        /\ generations = 0 /\ comparisons = 0 /\ repairs = 0
        /\ reports = <<>> /\ fixes = <<>> /\ disk.rev = 0 /\ attempt = 0

MissingCsvReported == pc = "MissingInput" /\ pdf_exists /\ ~csv_exists

\* C9: normalizing a produced cell a second time changes nothing.
NormalizationIdempotent == cpc = "twice" => twice = once

IsNullCell(v) == v \in Missing \cup {Str(NAN_TEXT), Str(NA_TEXT), Str(NONE_TEXT)}

\* the field of the expected csv that the cell at row r, column c of the
\* produced frame is compared with
ExpectedField(r, c) ==
    expected_csv.records[produced.index[r] + 1]
                        [PositionOf(expected_csv.header, produced.columns[c])]

SameLabels ==
    /\ Shape(ReadCsv(expected_csv)) = Shape(produced)
    /\ SameSorted(ReadCsv(expected_csv).index, produced.index)
    /\ SameSorted(expected_csv.header, produced.columns)

\* C10: a produced cell that is "nan", "<NA>", "None" or missing is normalized
\* to "", and a produced frame whose cells are such nulls where the expected
\* field is empty, and the expected text elsewhere, passes the comparison.
NullUnification ==
    /\ tpc \in {"clean", "done"} =>
          \A r \in DOMAIN produced.data : \A c \in DOMAIN produced.data[r] :
              IsNullCell(produced.data[r][c]) => result_df.data[r][c] = Str(EMPTY)
    /\ (tpc = "done" /\ SameLabels
          /\ \A r \in DOMAIN produced.data : \A c \in DOMAIN produced.data[r] :
                IF ExpectedField(r, c) = EMPTY
                THEN IsNullCell(produced.data[r][c])
                ELSE produced.data[r][c] = Str(ExpectedField(r, c)))
       => outcome.kind = "Match"

NullsMatchEmpty ==
    /\ tpc = "done" /\ outcome.kind = "Match"
    /\ \E r \in DOMAIN produced.data : \E c, d \in DOMAIN produced.data[r] :
          produced.data[r][c] = PyNone /\ produced.data[r][d] = Str(NAN_TEXT)


\* the cleaned produced frame is the cleaned expected frame with its columns
\* in another order: same rows, same row labels, and under each column name
\* the same cells
ColumnsPermuted ==
    /\ result_df.index = expected_df.index
    /\ Len(result_df.columns) = Len(expected_df.columns)
    /\ Range(result_df.columns) = Range(expected_df.columns)
    /\ \A r \in DOMAIN result_df.data : \A c \in DOMAIN result_df.columns :
          result_df.data[r][c] =
              expected_df.data[r][PositionOf(expected_df.columns, result_df.columns[c])]

\* C11: comparing a table with the same table under any permutation of its
\* columns passes (Match).
ColumnOrderIndependence ==
    (tpc = "done" /\ ColumnsPermuted) => outcome.kind = "Match"

SwappedColumnsMatch ==
    /\ tpc = "done" /\ ColumnsPermuted /\ outcome.kind = "Match"
    /\ Len(result_df.columns) = 2 /\ result_df.columns # expected_df.columns
    /\ Len(result_df.index) >= 1
    /\ result_df.data[1][1] # result_df.data[1][2]


\* the cell of the cleaned expected frame that stands at row position r under
\* the name of the produced frame's column c
ExpectedCell(r, c) ==
    expected_df.data[r][PositionOf(expected_df.columns, result_df.columns[c])]

\* row position r of the cleaned produced frame holds row position q of the
\* cleaned expected frame
HoldsRow(r, q) == \A c \in DOMAIN result_df.columns : result_df.data[r][c] = ExpectedCell(q, c)

\* the cleaned produced frame is the cleaned expected frame with two
\* different rows exchanged
RowsSwapped ==
    /\ Shape(result_df) = Shape(expected_df)
    /\ Range(result_df.columns) = Range(expected_df.columns)
    /\ \E i, j \in DOMAIN result_df.index :
          /\ i # j
          /\ ~HoldsRow(i, i)
          /\ HoldsRow(i, j) /\ HoldsRow(j, i)
          /\ \A k \in DOMAIN result_df.index \ {i, j} : HoldsRow(k, k)

\* C12: a produced table that is the expected one with two non-identical rows
\* exchanged fails the comparison with a value mismatch, whatever row labels
\* the produced table carries.
RowOrderSensitivity ==
    (tpc = "done" /\ RowsSwapped) => outcome.kind = "ValueMismatch"


(***************************************************************************)
(* LedgerSpec: lines 95 to 117 on a one-row statement with a Debit and a   *)
(* Credit column, the amounts written as in the sample csv.                *)
(***************************************************************************)
AMOUNT_100_00 == <<"1", "0", "0", ".", "0", "0">>
AMOUNT_0_00   == <<"0", ".", "0", "0">>
AMOUNT_100    == <<"1", "0", "0">>

AmountTexts == {EMPTY, AMOUNT_100_00, AMOUNT_0_00, AMOUNT_100}

LedgerCsvFiles ==
    { [header |-> <<"Debit", "Credit">>, records |-> << <<d, c>> >>] :
        d \in AmountTexts, c \in AmountTexts }

LedgerCells == {NaN} \cup { Str(t) : t \in AmountTexts }

LedgerFrames ==
    { Frame1(h, 0, <<a, b>>) :
        h \in LabelSeqs(EXPECTED_NAMES, 2), a \in LedgerCells, b \in LedgerCells }

LedgerInit ==
    /\ tpc = "start"
    /\ expected_csv \in LedgerCsvFiles
    /\ produced \in LedgerFrames
    /\ expected_df = NO_FRAME
    /\ result_df = NO_FRAME
    /\ outcome = NO_REPORT

LedgerSpecInit == LedgerInit /\ MainIdle /\ CellIdle

LedgerSpec == LedgerSpecInit /\ [][TableNext]_vars

\* the cell the produced frame holds under a column name, in its only row
ProducedUnder(name) == produced.data[1][PositionOf(produced.columns, name)]

\* the field the expected csv holds under a column name, in its only record
FieldUnder(name) == expected_csv.records[1][PositionOf(expected_csv.header, name)]

\* expected {Debit: "100.00", Credit: ""}, produced {Debit: "100.00", Credit: "0.00"}
ZeroCreditCase ==
    /\ FieldUnder("Debit") = AMOUNT_100_00 /\ FieldUnder("Credit") = EMPTY
    /\ ProducedUnder("Debit") = Str(AMOUNT_100_00)
    /\ ProducedUnder("Credit") = Str(AMOUNT_0_00)

\* C13: the comparison passes only if every cleaned produced cell has the very
\* text of the cleaned expected cell; a produced Credit of "0.00" against an
\* empty expected Credit is a value mismatch at Credit, and "100" against
\* "100.00" is a value mismatch too.
StrictCellEquality ==
    tpc = "done" =>
        /\ outcome.kind = "Match" <=>
              \A c \in DOMAIN result_df.columns :
                  result_df.data[1][c].text = ExpectedCell(1, c).text
        /\ outcome.kind \in {"Match", "ValueMismatch"}
        /\ ZeroCreditCase => outcome = Report("ValueMismatch", "Credit")
        /\ (FieldUnder("Debit") = AMOUNT_100_00 /\ ProducedUnder("Debit") = Str(AMOUNT_100))
              => outcome.kind = "ValueMismatch"

ZeroCreditRejected ==
    tpc = "done" /\ ZeroCreditCase /\ outcome = Report("ValueMismatch", "Credit")


SameColumnSet == Range(result_df.columns) = Range(expected_df.columns)
SameRowCount  == Len(result_df.index) = Len(expected_df.index)

\* C14: a produced table whose column-name set differs from the expected one
\* is reported as a column-set mismatch whatever the row counts; with equal
\* column sets, differing row counts are reported as a shape mismatch; the
\* cells are scanned only when both agree.
CheckOrder ==
    tpc = "done" =>
        /\ ~SameColumnSet => outcome.kind = "ColumnSetMismatch"
        /\ (SameColumnSet /\ ~SameRowCount) => outcome.kind = "ShapeMismatch"
        /\ outcome.kind \in {"Match", "ValueMismatch"} => (SameColumnSet /\ SameRowCount)


(***************************************************************************)
(* SameCellSpec: lines 95 to 117 on a one-cell table whose expected csv    *)
(* field and produced cell are the same text.                              *)
(***************************************************************************)
SharedWords == Words \cup {<<"N", "A">>}

SharedTexts == { Concat(ws) : ws \in UNION { [1..k -> SharedWords] : k \in 0..MaxWords } }

SameCellInit ==
    /\ tpc = "start"
    /\ expected_csv \in { [header |-> <<"Debit">>, records |-> << <<t>> >>] : t \in SharedTexts }
    /\ produced = Frame1(<<"Debit">>, 0, <<Str(expected_csv.records[1][1])>>)
    /\ expected_df = NO_FRAME
    /\ result_df = NO_FRAME
    /\ outcome = NO_REPORT

SameCellSpecInit == SameCellInit /\ MainIdle /\ CellIdle

SameCellSpec == SameCellSpecInit /\ [][TableNext]_vars

\* C15: a text standing in the expected csv and in the produced frame at the
\* same position is cleaned to the same string on both sides, and the
\* comparison passes.
SymmetricNormalization ==
    /\ tpc \in {"clean", "done"} => result_df.data[1][1] = expected_df.data[1][1]
    /\ tpc = "done" => outcome.kind = "Match"


InLoop == pc \in {"RunTest", "Judge", "Fix"}

\* C16: from the first attempt on, a step changes the parser file only when it
\* is fix_parser's, and no step changes the paths of the input document, of the
\* expected csv and of the parser file, nor the expected csv and the presence of
\* the two inputs.
AttemptFrame ==
    [][InLoop =>
         /\ disk' # disk => pc = "Fix"
         /\ UNCHANGED <<pdf_path, csv_path, parser_path, csv_file, pdf_exists, csv_exists>>]_vars

\* the third attempt has run: two repairs replaced the program, the paths are
\* the ones the run started with
ThirdAttemptSameFiles ==
    /\ pc = "Judge" /\ attempt = 3 /\ disk.rev = 3 /\ repairs = 2
    /\ parser_path = PARSER_PATH /\ pdf_path = PDF_PATH /\ csv_path = CSV_PATH
    /\ csv_file = SAMPLE_CSV

\* C17: when the loop has ended, with a match or with all attempts failed, the
\* parser file holds the revision the last comparison judged (the matching one
\* after a match, a failing one after exhaustion), and every repair was made
\* before that comparison.
EmittedIsValidated ==
    pc \in {"Success", "Exhausted", "Returned"} =>
        /\ reports # <<>>
        /\ disk.exists
        /\ disk.rev = reports[Len(reports)].rev
        /\ loaded = disk
        /\ reports[Len(reports)].ok <=> pc = "Success"
        /\ repairs = Len(reports) - 1
        /\ comparisons = Len(reports)

\* all attempts failed and the file holds the third revision, the one that
\* failed last
ExhaustedHoldsLastJudged ==
    /\ pc = "Exhausted" /\ disk.rev = 3 /\ reports[3].rev = 3 /\ ~reports[3].ok

\* C18: the program an attempt loads and runs is the one written last, the
\* generated one in attempt 1 and the output of repair k-1 in attempt k > 1,
\* and the report of attempt k is about that revision.
NoStaleRevision ==
    /\ \A k \in 1..Len(reports) : reports[k].rev = k
    /\ pc \in {"Judge", "Fix", "Success", "Exhausted"} =>
         /\ loaded = disk
         /\ loaded.rev = attempt
         /\ attempt = 1 => loaded.parent = 0
         /\ attempt > 1 => /\ loaded.parent = attempt - 1
                           /\ loaded.given = reports[attempt - 1]
                           /\ fixes[attempt - 1].original_code = attempt - 1

\* the second attempt ran the revision the first repair wrote
SecondAttemptRunsRepair ==
    /\ pc = "Judge" /\ attempt = 2 /\ loaded.rev = 2 /\ loaded.parent = 1
    /\ Len(reports) = 2 /\ reports[2].rev = 2

\* C19: a repair whose service call raises ends the run: the step writes
\* nothing to the parser file and makes no comparison, and the run stays
\* aborted, neither successful nor exhausted, with the file holding the
\* revision that failed last.
GenerationFaultEscapes ==
    [][/\ (pc = "Fix" /\ pc' = "Aborted") =>
            /\ disk' = disk
            /\ comparisons' = comparisons
            /\ repairs' = repairs + 1
            /\ disk.rev = reports[Len(reports)].rev
            /\ ~reports[Len(reports)].ok
       /\ pc = "Aborted" => UNCHANGED <<pc, disk, comparisons, reports>>]_vars

\* the second repair raised: two comparisons were made, the file holds the
\* second revision
SecondRepairRaised ==
    /\ pc = "Aborted" /\ repairs = 2 /\ comparisons = 2
    /\ disk.rev = 2 /\ ~reports[2].ok /\ Len(reports) = 2

====
